---- MODULE Spec2Model ----
(***************************************************************************)
(* Model of distributed/membership.go: membershipManagerImpl, its Connect  *)
(* and Disconnect, the zookeeper connection it holds (zk.Conn, an external *)
(* library) and the SchemaFetchJob it starts (package distributed, source  *)
(* not in this tree: modelled from the design document).                   *)
(*                                                                         *)
(* One foreground thread issues Connect and Disconnect calls one after the *)
(* other; pc is its position.  Every job whose Run was launched with `go`  *)
(* is a background activity of its own.  The coordination service is the   *)
(* environment: it may expire the session, which removes the ephemeral     *)
(* node while the zk.Conn handle stays usable (the client re-establishes a *)
(* session on the same handle).                                            *)
(***************************************************************************)
EXTENDS Integers, Sequences, FiniteSets, TLC

\* number of foreground calls (Connect or Disconnect) in one run
MaxCalls == 3

\* values of cfg.Cluster.InstanceName the model draws from
InstanceNames == {"", "n1"}

\* the configurations and host names the payload of the node is checked for;
\* the names hold the characters json.Marshal escapes
PayloadNames == {"n1", "a\"b\\<"}
ClusterNames == {"c1", "c2"}
HostNames == {"h1", "h\"2"}
Ports == {8080, -1}

\* errors FetchApplySchema can return
FetchErrs == {"ErrSchemaFetch", "ErrSchemaInvalid"}

VARIABLES
    cfg,            \* mm.cfg: the server configuration (immutable)
    hostname,       \* what os.Hostname() returns on this machine (immutable)
    creates,        \* the create requests the coordination service has carried out
    zkc,            \* mm.zkc: 0 is nil, otherwise an index into conns
    schemaFetchJob, \* mm.schemaFetchJob: 0 is nil, otherwise an index into jobs
    conns,          \* every zk.Conn ever returned by zk.Connect: "open" or "closed"
    node,           \* the ephemeral node at the presence path: 0 absent, else the owning conn,
                    \* or Foreign when a session of another process owns it
    jobs,           \* every SchemaFetchJob ever constructed
    pc,             \* position of the foreground thread
    hist            \* one record per foreground call, the last one being the current call

vars == <<cfg, hostname, creates, zkc, schemaFetchJob, conns, node, jobs, pc, hist>>

Nil == 0

\* owner of a node at the presence path that this manager did not create (a
\* stale session that has not expired yet, or another instance of the same name)
Foreign == -1

\* the record of the current (or, when pc = "idle", the last) foreground call
Cur == hist[Len(hist)]

NewCall(op) ==
    [op |-> op, ret |-> "running", opened |-> FALSE, created |-> FALSE,
     newJob |-> FALSE, fetched |-> "none", launched |-> FALSE,
     closed |-> FALSE, stopReq |-> FALSE, jobBefore |-> schemaFetchJob]

\* hist with the fields of the current call updated
Note(upd) == [hist EXCEPT ![Len(hist)] = upd @@ @]

NewJob == [loop |-> "notstarted", stop |-> FALSE, boot |-> "none", last |-> "none"]

\* the manager as NewMembershipManager returns it, for a configuration out of
\* the given sets
InitWith(names, clusters, ports, hosts, owners) ==
    /\ cfg \in [InstanceName : names, ClusterName : clusters, Port : ports]
    /\ hostname \in hosts
    /\ creates = <<>>
    /\ zkc = Nil
    /\ schemaFetchJob = Nil
    /\ conns = <<>>
    /\ node \in owners
    /\ jobs = <<>>
    /\ pc = "idle"
    /\ hist = <<>>

Init == InitWith(InstanceNames, {"c1"}, {8080}, {"h1"}, {0, Foreign})

(***************************************************************************)
(* The presence record                                                     *)
(***************************************************************************)

InstanceHostAndNameSwapped(n, h, p) == [Name |-> h, Host |-> n, Port |-> p]

\* instance := Instance{Name: instanceName, Host: hostName, Port: serverPort}
Instance(n, h, p) == [Name |-> n, Host |-> h, Port |-> p]

\* fmt.Sprintf("/ares_controller/%s/instances/%s", clusterName, instanceName)
InstancePath(c, n) == "/ares_controller/" \o c \o "/instances/" \o n

Char(s, i) == SubSeq(s, i, i)

\* encoding/json: one character of a string value as json.Marshal writes it
EscapeChar(c) ==
    CASE c = "\"" -> "\\\""
      [] c = "\\" -> "\\\\"
      [] c = "<" -> "\\u003c"
      [] c = ">" -> "\\u003e"
      [] c = "&" -> "\\u0026"
      [] OTHER -> c

RECURSIVE EscapeFrom(_, _)
EscapeFrom(s, i) ==
    IF i > Len(s) THEN "" ELSE EscapeChar(Char(s, i)) \o EscapeFrom(s, i + 1)

JsonString(s) == "\"" \o EscapeFrom(s, 1) \o "\""

\* json.Marshal(instance): the fields in declaration order, the port in decimal
Marshal(inst) ==
    "{\"Name\":" \o JsonString(inst.Name) \o ",\"Host\":" \o JsonString(inst.Host)
        \o ",\"Port\":" \o ToString(inst.Port) \o "}"

\* encoding/json, reading: the character a \uXXXX escape stands for
Unicode(hex) ==
    CASE hex = "003c" -> "<"
      [] hex = "003e" -> ">"
      [] hex = "0026" -> "&"
      [] OTHER -> "?"

\* reads a string value whose opening quote is before position i
RECURSIVE ReadString(_, _, _)
ReadString(b, i, acc) ==
    IF i > Len(b) THEN [val |-> acc, next |-> i, ok |-> FALSE]
    ELSE IF Char(b, i) = "\"" THEN [val |-> acc, next |-> i + 1, ok |-> TRUE]
    ELSE IF Char(b, i) = "\\"
         THEN IF Char(b, i + 1) = "u"
              THEN ReadString(b, i + 6, acc \o Unicode(SubSeq(b, i + 2, i + 5)))
              ELSE ReadString(b, i + 2, acc \o Char(b, i + 1))
    ELSE ReadString(b, i + 1, acc \o Char(b, i))

Digits == <<"0", "1", "2", "3", "4", "5", "6", "7", "8", "9">>

IsDigit(c) == \E d \in 1..10 : Digits[d] = c

DigitValue(c) == (CHOOSE d \in 1..10 : Digits[d] = c) - 1

\* reads the decimal digits from position i on
RECURSIVE ReadDigits(_, _, _)
ReadDigits(b, i, acc) ==
    IF i <= Len(b) /\ IsDigit(Char(b, i))
    THEN ReadDigits(b, i + 1, 10 * acc + DigitValue(Char(b, i)))
    ELSE [val |-> acc, next |-> i, ok |-> TRUE]

ReadInt(b, i) ==
    IF Char(b, i) = "-"
    THEN LET r == ReadDigits(b, i + 1, 0) IN [r EXCEPT !.val = 0 - r.val]
    ELSE ReadDigits(b, i, 0)

\* reads the members of an object from position i on into the record acc
RECURSIVE ReadMembers(_, _, _)
ReadMembers(b, i, acc) ==
    IF i > Len(b) \/ Char(b, i) # "\"" THEN acc
    ELSE LET k == ReadString(b, i + 1, "")
             v == IF Char(b, k.next + 1) = "\""
                  THEN ReadString(b, k.next + 2, "")
                  ELSE ReadInt(b, k.next + 1)
             rec == (k.val :> v.val) @@ acc
         IN  IF Char(b, v.next) = "," THEN ReadMembers(b, v.next + 1, rec) ELSE rec

\* json.Unmarshal(bytes, &instance), the reading side of the payload
Unmarshal(b) ==
    LET m == ReadMembers(b, 2, <<>>)
    IN  [Name |-> m["Name"], Host |-> m["Host"], Port |-> m["Port"]]

\* the request mm.zkc.Create sends: path, payload, zk.FlagEphemeral, zk.WorldACL(zk.PermAll)
CreateRequest ==
    [call |-> Len(hist), conn |-> zkc,
     path |-> InstancePath(cfg.ClusterName, cfg.InstanceName),
     data |-> Marshal(Instance(cfg.InstanceName, hostname, cfg.Port)),
     flags |-> "FlagEphemeral", acl |-> "WorldACL(PermAll)"]

(***************************************************************************)
(* Connect                                                                 *)
(***************************************************************************)

\* zk.Connect as called by initZKConnection: a new connection, or an error
\* that leaves mm.zkc nil
initZKConnection(h) ==
    \/ /\ conns' = Append(conns, "open")
       /\ zkc' = Len(conns) + 1
       /\ hist' = Append(h, [NewCall("Connect") EXCEPT !.opened = TRUE])
       /\ pc' = "c_name"
    \/ /\ hist' = Append(h, [NewCall("Connect") EXCEPT !.ret = "ErrZKConnect"])
       /\ pc' = "idle"
       /\ UNCHANGED <<conns, zkc>>

ConnectBeginAlwaysConnecting ==
    /\ pc = "idle"
    /\ Len(hist) < MaxCalls
    /\ initZKConnection(hist)
    /\ UNCHANGED <<cfg, hostname, creates, schemaFetchJob, node, jobs>>

\* if mm.zkc == nil { err = mm.initZKConnection(); if err != nil { return } }
ConnectBegin ==
    /\ pc = "idle"
    /\ Len(hist) < MaxCalls
    /\ IF zkc = Nil
       THEN initZKConnection(hist)
       ELSE /\ hist' = Append(hist, NewCall("Connect"))
            /\ pc' = "c_name"
            /\ UNCHANGED <<conns, zkc>>
    /\ UNCHANGED <<cfg, hostname, creates, schemaFetchJob, node, jobs>>

\* instance name check, os.Hostname(), the Instance record and json.Marshal
ConnectName ==
    /\ pc = "c_name"
    /\ IF cfg.InstanceName = ""
       THEN /\ hist' = Note([ret |-> "ErrInvalidInstanceName"])
            /\ pc' = "idle"
       ELSE \/ /\ hist' = Note([ret |-> "ErrHostname"])
               /\ pc' = "idle"
            \/ /\ pc' = "c_create"
               /\ UNCHANGED hist
    /\ UNCHANGED <<cfg, hostname, creates, zkc, schemaFetchJob, conns, node, jobs>>

ConnectCreateOverExisting ==
    /\ pc = "c_create"
    /\ \/ /\ conns[zkc] = "closed"
          /\ hist' = Note([ret |-> "ErrClosing"])
          /\ pc' = "idle"
          /\ UNCHANGED <<node, creates>>
       \/ /\ conns[zkc] = "open"
          /\ hist' = Note([ret |-> "ErrConnectionClosed"])
          /\ pc' = "idle"
          /\ UNCHANGED <<node, creates>>
       \/ /\ conns[zkc] = "open"
          /\ node' = zkc
          /\ creates' = Append(creates, CreateRequest)
          /\ hist' = Note([created |-> TRUE])
          /\ pc' = "c_job"
    /\ UNCHANGED <<cfg, hostname, zkc, schemaFetchJob, conns, jobs>>

ConnectCreateRollingBack ==
    /\ pc = "c_create"
    /\ \/ /\ conns[zkc] = "closed"
          /\ hist' = Note([ret |-> "ErrClosing"])
          /\ pc' = "idle"
          /\ UNCHANGED <<node, creates, conns>>
       \/ /\ conns[zkc] = "open"
          /\ hist' = Note([ret |-> "ErrConnectionClosed"])
          /\ conns' = [conns EXCEPT ![zkc] = "closed"]
          /\ node' = IF node = zkc THEN 0 ELSE node
          /\ pc' = "idle"
          /\ UNCHANGED creates
       \/ /\ conns[zkc] = "open"
          /\ node # 0
          /\ hist' = Note([ret |-> "ErrNodeExists"])
          /\ conns' = [conns EXCEPT ![zkc] = "closed"]
          /\ node' = IF node = zkc THEN 0 ELSE node
          /\ pc' = "idle"
          /\ UNCHANGED creates
       \/ /\ conns[zkc] = "open"
          /\ node = 0
          /\ node' = zkc
          /\ creates' = Append(creates, CreateRequest)
          /\ hist' = Note([created |-> TRUE])
          /\ pc' = "c_job"
          /\ UNCHANGED conns
    /\ UNCHANGED <<cfg, hostname, zkc, schemaFetchJob, jobs>>

ConnectCreateExistsIsSuccess ==
    /\ pc = "c_create"
    /\ \/ /\ conns[zkc] = "closed"
          /\ hist' = Note([ret |-> "ErrClosing"])
          /\ pc' = "idle"
          /\ UNCHANGED <<node, creates>>
       \/ /\ conns[zkc] = "open"
          /\ hist' = Note([ret |-> "ErrConnectionClosed"])
          /\ pc' = "idle"
          /\ UNCHANGED <<node, creates>>
       \/ /\ conns[zkc] = "open"
          /\ node # 0
          /\ pc' = "c_job"
          /\ UNCHANGED <<node, creates, hist>>
       \/ /\ conns[zkc] = "open"
          /\ node = 0
          /\ node' = zkc
          /\ creates' = Append(creates, CreateRequest)
          /\ hist' = Note([created |-> TRUE])
          /\ pc' = "c_job"
    /\ UNCHANGED <<cfg, hostname, zkc, schemaFetchJob, conns, jobs>>

ConnectCreateIgnoringError ==
    /\ pc = "c_create"
    /\ \/ /\ conns[zkc] = "open"
          /\ node = 0
          /\ node' = zkc
          /\ creates' = Append(creates, CreateRequest)
          /\ hist' = Note([created |-> TRUE])
       \/ /\ UNCHANGED <<node, hist, creates>>
    /\ pc' = "c_job"
    /\ UNCHANGED <<cfg, hostname, zkc, schemaFetchJob, conns, jobs>>

\* mm.zkc.Create(path, instanceBytes, zk.FlagEphemeral, acl); if err != nil { return }
ConnectCreate ==
    /\ pc = "c_create"
    /\ \/ /\ conns[zkc] = "closed"
          /\ hist' = Note([ret |-> "ErrClosing"])
          /\ pc' = "idle"
          /\ UNCHANGED <<node, creates>>
       \/ /\ conns[zkc] = "open"
          /\ hist' = Note([ret |-> "ErrConnectionClosed"])
          /\ pc' = "idle"
          /\ UNCHANGED <<node, creates>>
       \/ /\ conns[zkc] = "open"
          /\ node # 0
          /\ hist' = Note([ret |-> "ErrNodeExists"])
          /\ pc' = "idle"
          /\ UNCHANGED <<node, creates>>
       \/ /\ conns[zkc] = "open"
          /\ node = 0
          /\ node' = zkc
          /\ creates' = Append(creates, CreateRequest)
          /\ hist' = Note([created |-> TRUE])
          /\ pc' = "c_job"
    /\ UNCHANGED <<cfg, hostname, zkc, schemaFetchJob, conns, jobs>>

\* mm.schemaFetchJob = NewSchemaFetchJob(...), then the call of FetchApplySchema(true)
ConnectJob ==
    /\ pc = "c_job"
    /\ jobs' = Append(jobs, NewJob)
    /\ schemaFetchJob' = Len(jobs) + 1
    /\ hist' = Note([newJob |-> TRUE])
    /\ pc' = "c_fetch"
    /\ UNCHANGED <<cfg, hostname, creates, zkc, conns, node>>

ConnectFetchIgnoringError ==
    /\ pc = "c_fetch"
    /\ \E r \in {"ok"} \cup FetchErrs :
          /\ jobs' = [jobs EXCEPT ![schemaFetchJob].boot = r]
          /\ hist' = Note([fetched |-> r])
          /\ pc' = "c_run"
    /\ UNCHANGED <<cfg, hostname, creates, zkc, schemaFetchJob, conns, node>>

\* err = mm.schemaFetchJob.FetchApplySchema(true) returns; if err != nil { return }
ConnectFetch ==
    /\ pc = "c_fetch"
    /\ \/ /\ jobs' = [jobs EXCEPT ![schemaFetchJob].boot = "ok"]
          /\ hist' = Note([fetched |-> "ok"])
          /\ pc' = "c_run"
       \/ \E e \in FetchErrs :
             /\ jobs' = [jobs EXCEPT ![schemaFetchJob].boot = e]
             /\ hist' = Note([fetched |-> e, ret |-> e])
             /\ pc' = "idle"
    /\ UNCHANGED <<cfg, hostname, creates, zkc, schemaFetchJob, conns, node>>

ConnectRunNotLaunching ==
    /\ pc = "c_run"
    /\ hist' = Note([ret |-> "ok"])
    /\ pc' = "idle"
    /\ UNCHANGED <<cfg, hostname, creates, zkc, schemaFetchJob, conns, node, jobs>>

\* go mm.schemaFetchJob.Run(); return
ConnectRun ==
    /\ pc = "c_run"
    /\ jobs' = [jobs EXCEPT ![schemaFetchJob].loop = "waiting"]
    /\ hist' = Note([launched |-> TRUE, ret |-> "ok"])
    /\ pc' = "idle"
    /\ UNCHANGED <<cfg, hostname, creates, zkc, schemaFetchJob, conns, node>>

(***************************************************************************)
(* SchemaFetchJob (design document, section 4.2)                           *)
(***************************************************************************)

JobIds == 1..MaxCalls

\* Stop() returns once the loop has exited; it does not block when the loop
\* was never launched
StopMayReturnOnlyAfterExit(j) == jobs[j].loop = "exited"

StopMayReturn(j) == jobs[j].loop \in {"notstarted", "exited"}

\* Run(): the interval elapses and an iteration begins: FetchApplySchema(false)
LoopTick(j) ==
    /\ pc # "panicked"
    /\ j <= Len(jobs)
    /\ jobs[j].loop = "waiting"
    /\ ~jobs[j].stop
    /\ jobs' = [jobs EXCEPT ![j].loop = "fetching"]
    /\ UNCHANGED <<cfg, hostname, creates, zkc, schemaFetchJob, conns, node, pc, hist>>

LoopFetchDoneExitingOnError(j) ==
    /\ pc # "panicked"
    /\ j <= Len(jobs)
    /\ jobs[j].loop = "fetching"
    /\ \E r \in {"ok"} \cup FetchErrs :
          jobs' = [jobs EXCEPT ![j].loop = IF r = "ok" THEN "waiting" ELSE "exited",
                               ![j].last = r]
    /\ UNCHANGED <<cfg, hostname, creates, zkc, schemaFetchJob, conns, node, pc, hist>>

\* Run(): FetchApplySchema(false) returns, with or without an error; the loop
\* goes on to the next interval
LoopFetchDone(j) ==
    /\ pc # "panicked"
    /\ j <= Len(jobs)
    /\ jobs[j].loop = "fetching"
    /\ \E r \in {"ok"} \cup FetchErrs :
          jobs' = [jobs EXCEPT ![j].loop = "waiting", ![j].last = r]
    /\ UNCHANGED <<cfg, hostname, creates, zkc, schemaFetchJob, conns, node, pc, hist>>

\* Run(): the loop sees the stop signal between two iterations and exits
LoopExit(j) ==
    /\ pc # "panicked"
    /\ j <= Len(jobs)
    /\ jobs[j].loop = "waiting"
    /\ jobs[j].stop
    /\ jobs' = [jobs EXCEPT ![j].loop = "exited"]
    /\ UNCHANGED <<cfg, hostname, creates, zkc, schemaFetchJob, conns, node, pc, hist>>

(***************************************************************************)
(* Disconnect                                                              *)
(***************************************************************************)

DisconnectStepsStopFirst == <<"d_stop", "d_close">>

\* the statements of Disconnect in program order: mm.zkc.Close(), then
\* mm.schemaFetchJob.Stop()
DisconnectSteps == <<"d_close", "d_stop">>

\* the position after statement s of Disconnect
After(s) ==
    LET i == CHOOSE k \in 1..Len(DisconnectSteps) : DisconnectSteps[k] = s
    IN  IF i < Len(DisconnectSteps) THEN DisconnectSteps[i + 1] ELSE "d_ret"

DisconnectBegin ==
    /\ pc = "idle"
    /\ Len(hist) < MaxCalls
    /\ hist' = Append(hist, NewCall("Disconnect"))
    /\ pc' = DisconnectSteps[1]
    /\ UNCHANGED <<cfg, hostname, creates, zkc, schemaFetchJob, conns, node, jobs>>

DisconnectCloseClearingHandle ==
    /\ pc = "d_close"
    /\ IF zkc = Nil
       THEN /\ hist' = Note([ret |-> "panic"])
            /\ pc' = "panicked"
            /\ UNCHANGED <<conns, node, zkc>>
       ELSE /\ conns' = [conns EXCEPT ![zkc] = "closed"]
            /\ node' = IF node = zkc THEN 0 ELSE node
            /\ zkc' = Nil
            /\ hist' = Note([closed |-> TRUE])
            /\ pc' = After("d_close")
    /\ UNCHANGED <<cfg, hostname, creates, schemaFetchJob, jobs>>

\* mm.zkc.Close(): a nil mm.zkc is dereferenced (the process panics);
\* otherwise the session ends and its ephemeral node goes with it.  Close on
\* a connection that is already closed is taken to do nothing (the client
\* library is assumed correct; its source is not part of this repository)
DisconnectClose ==
    /\ pc = "d_close"
    /\ IF zkc = Nil
       THEN /\ hist' = Note([ret |-> "panic"])
            /\ pc' = "panicked"
            /\ UNCHANGED <<conns, node>>
       ELSE /\ conns' = [conns EXCEPT ![zkc] = "closed"]
            /\ node' = IF node = zkc THEN 0 ELSE node
            /\ hist' = Note([closed |-> TRUE])
            /\ pc' = After("d_close")
    /\ UNCHANGED <<cfg, hostname, creates, zkc, schemaFetchJob, jobs>>

\* mm.schemaFetchJob.Stop() is called: a nil mm.schemaFetchJob is
\* dereferenced (the process panics); otherwise the loop is signalled
DisconnectStop ==
    /\ pc = "d_stop"
    /\ IF schemaFetchJob = Nil
       THEN /\ hist' = Note([ret |-> "panic"])
            /\ pc' = "panicked"
            /\ UNCHANGED jobs
       ELSE /\ jobs' = [jobs EXCEPT ![schemaFetchJob].stop = TRUE]
            /\ hist' = Note([stopReq |-> TRUE])
            /\ pc' = "d_wait"
    /\ UNCHANGED <<cfg, hostname, creates, zkc, schemaFetchJob, conns, node>>

\* mm.schemaFetchJob.Stop() returns
DisconnectStopReturn ==
    /\ pc = "d_wait"
    /\ StopMayReturn(schemaFetchJob)
    /\ pc' = After("d_stop")
    /\ UNCHANGED <<cfg, hostname, creates, zkc, schemaFetchJob, conns, node, jobs, hist>>

\* return
DisconnectReturn ==
    /\ pc = "d_ret"
    /\ hist' = Note([ret |-> "returned"])
    /\ pc' = "idle"
    /\ UNCHANGED <<cfg, hostname, creates, zkc, schemaFetchJob, conns, node, jobs>>

(***************************************************************************)
(* The coordination service                                                *)
(***************************************************************************)

\* the session of an open connection expires: its ephemeral node is removed;
\* the connection handle stays open and gets a new session
SessionExpire ==
    /\ pc # "panicked"
    /\ node > 0
    /\ conns[node] = "open"
    /\ node' = 0
    /\ UNCHANGED <<cfg, hostname, creates, zkc, schemaFetchJob, conns, jobs, pc, hist>>

\* the session of the other process that owns the node ends: the node is removed
ForeignSessionEnd ==
    /\ pc # "panicked"
    /\ node = Foreign
    /\ node' = 0
    /\ UNCHANGED <<cfg, hostname, creates, zkc, schemaFetchJob, conns, jobs, pc, hist>>

Next ==
    \/ ConnectBegin
    \/ ConnectName
    \/ ConnectCreate
    \/ ConnectJob
    \/ ConnectFetch
    \/ ConnectRun
    \/ DisconnectBegin
    \/ DisconnectClose
    \/ DisconnectStop
    \/ DisconnectStopReturn
    \/ DisconnectReturn
    \/ \E j \in JobIds : LoopTick(j)
    \/ \E j \in JobIds : LoopFetchDone(j)
    \/ \E j \in JobIds : LoopExit(j)
    \/ SessionExpire
    \/ ForeignSessionEnd

Spec == Init /\ [][Next]_vars

\* the scheduler runs every goroutine that can take a step: the foreground
\* call in progress, an in-flight fetch, and a loop that has been signalled
FairSpec ==
    /\ Spec
    /\ WF_vars(DisconnectClose)
    /\ WF_vars(DisconnectStop)
    /\ WF_vars(DisconnectStopReturn)
    /\ WF_vars(DisconnectReturn)
    /\ \A j \in JobIds : WF_vars(LoopFetchDone(j)) /\ WF_vars(LoopExit(j))

\* FairSpec, and the interval timer of every running loop fires
FairTickSpec ==
    /\ FairSpec
    /\ \A j \in JobIds : WF_vars(LoopTick(j))

\* the manager for every configuration and host name of the payload sets
InitPayload == InitWith(PayloadNames, ClusterNames, Ports, HostNames, {0, Foreign})

SpecPayload == InitPayload /\ [][Next]_vars

\* the program alone, with a coordination service that never expires a session
NextNoExpiry ==
    \/ ConnectBegin
    \/ ConnectName
    \/ ConnectCreate
    \/ ConnectJob
    \/ ConnectFetch
    \/ ConnectRun
    \/ DisconnectBegin
    \/ DisconnectClose
    \/ DisconnectStop
    \/ DisconnectStopReturn
    \/ DisconnectReturn
    \/ \E j \in JobIds : LoopTick(j)
    \/ \E j \in JobIds : LoopFetchDone(j)
    \/ \E j \in JobIds : LoopExit(j)

SpecNoExpiry == Init /\ [][NextNoExpiry]_vars

TypeOK ==
    /\ cfg \in [InstanceName : InstanceNames \cup PayloadNames,
                ClusterName : ClusterNames, Port : Ports]
    /\ hostname \in HostNames
    /\ \A i \in 1..Len(creates) : creates[i].call \in 1..Len(hist)
    /\ zkc \in 0..Len(conns)
    /\ schemaFetchJob \in 0..Len(jobs)
    /\ \A c \in 1..Len(conns) : conns[c] \in {"open", "closed"}
    /\ node \in {Foreign} \cup 0..Len(conns)
    /\ \A j \in 1..Len(jobs) :
          /\ jobs[j].loop \in {"notstarted", "waiting", "fetching", "exited"}
          /\ jobs[j].stop \in BOOLEAN
          /\ jobs[j].boot \in {"none", "ok"} \cup FetchErrs
          /\ jobs[j].last \in {"none", "ok"} \cup FetchErrs
    /\ Len(hist) <= MaxCalls
    /\ pc \in {"idle", "c_name", "c_create", "c_job", "c_fetch", "c_run",
               "d_close", "d_stop", "d_wait", "d_ret", "panicked"}

(***************************************************************************)
(* Properties                                                              *)
(***************************************************************************)

Calls == 1..Len(hist)

CreateErrs == {"ErrClosing", "ErrConnectionClosed", "ErrNodeExists"}

OpenConns == {c \in 1..Len(conns) : conns[c] = "open"}

\* the jobs whose Run loop is running
RunningLoops == {j \in 1..Len(jobs) : jobs[j].loop \in {"waiting", "fetching"}}

\* what the manager holds: its two handles and what they point at, and the node
MgrState ==
    <<zkc, IF zkc = Nil THEN "nil" ELSE conns[zkc], node,
      schemaFetchJob, IF schemaFetchJob = Nil THEN <<>> ELSE <<jobs[schemaFetchJob]>> >>

\* C1: with an empty instance name, the first Connect on a fresh manager
\* fails with ErrInvalidInstanceName and opens no session and creates no node
\* at any point of the call.
C1_EmptyNameNoIO ==
    (Len(hist) = 1 /\ Cur.op = "Connect" /\ cfg.InstanceName = "")
        => /\ ~Cur.opened
           /\ ~Cur.created
           /\ conns = <<>>
           /\ Cur.ret \in {"running", "ErrInvalidInstanceName"}

\* C2: a Connect that launched the loop or returned success has created the
\* node and completed one successful FetchApplySchema(true) before; no loop
\* was ever started on a job whose bootstrap fetch did not succeed.
C2_LoopAfterNodeAndBootstrap ==
    /\ \A k \in Calls :
          (hist[k].op = "Connect" /\ (hist[k].launched \/ hist[k].ret = "ok"))
              => hist[k].created /\ hist[k].fetched = "ok" /\ hist[k].launched
    /\ \A j \in 1..Len(jobs) : jobs[j].loop # "notstarted" => jobs[j].boot = "ok"

C2_Witness ==
    /\ Len(hist) >= 1
    /\ Cur.op = "Connect"
    /\ Cur.ret = "ok"
    /\ Cur.created
    /\ jobs[schemaFetchJob].loop = "waiting"

\* C3: when the bootstrap FetchApplySchema(true) of a Connect fails, that
\* Connect returns the error of the fetch and does not launch the loop.
C3_BootstrapFailureReturned ==
    \A k \in Calls :
        (hist[k].op = "Connect" /\ hist[k].fetched \in FetchErrs)
            => /\ hist[k].ret = hist[k].fetched
               /\ ~hist[k].launched
               /\ (k = Len(hist) => pc = "idle" /\ jobs[schemaFetchJob].loop = "notstarted")

C3_Witness ==
    /\ Len(hist) >= 1
    /\ Cur.op = "Connect"
    /\ Cur.fetched = "ErrSchemaInvalid"
    /\ Cur.ret = "ErrSchemaInvalid"
    /\ pc = "idle"

\* C4: the manager never has two open coordination sessions and never has
\* two background loops running at the same time.
C4_AtMostOneSessionAndLoop ==
    /\ Cardinality(OpenConns) <= 1
    /\ Cardinality(RunningLoops) <= 1

\* C5: a background loop is running only while the presence node exists.
C5_LoopOnlyWhilePresence ==
    RunningLoops # {} => node # 0

\* C6: a Disconnect that follows a Connect which opened the session and then
\* failed at node creation or at the bootstrap fetch does not fault, and has
\* closed the session when it returns.
C6_DisconnectCleansPartial ==
    \A k \in Calls :
        (/\ k > 1
         /\ hist[k].op = "Disconnect"
         /\ hist[k - 1].op = "Connect"
         /\ hist[k - 1].opened
         /\ hist[k - 1].ret \in CreateErrs \cup FetchErrs)
            => /\ hist[k].ret # "panic"
               /\ (hist[k].ret = "returned" => hist[k].closed)

InDisconnect == pc \in {"d_close", "d_stop", "d_wait", "d_ret"}

\* C7: a Disconnect in progress on a manager whose sync task was created
\* eventually returns, whether the loop of that task is running or was never
\* launched.
C7_DisconnectReturns ==
    (InDisconnect /\ schemaFetchJob # Nil)
        ~> (pc = "idle" /\ Len(hist) >= 1 /\ Cur.op = "Disconnect" /\ Cur.ret = "returned")

C7_Witness ==
    /\ pc = "idle"
    /\ Len(hist) >= 2
    /\ Cur.op = "Disconnect"
    /\ Cur.ret = "returned"
    /\ Cur.stopReq
    /\ jobs[schemaFetchJob].loop = "notstarted"
    /\ jobs[schemaFetchJob].boot \in FetchErrs

\* the current call is a Disconnect that directly follows a Disconnect that
\* returned, which directly follows a successful Connect
SecondDisconnect ==
    /\ Len(hist) >= 3
    /\ hist[Len(hist)].op = "Disconnect"
    /\ hist[Len(hist) - 1].op = "Disconnect"
    /\ hist[Len(hist) - 1].ret = "returned"
    /\ hist[Len(hist) - 2].op = "Connect"
    /\ hist[Len(hist) - 2].ret = "ok"

C9_CloseBeforeStop ==
    \A k \in Calls :
        (hist[k].op = "Disconnect" /\ hist[k].stopReq)
            => hist[k].closed /\ zkc # Nil /\ conns[zkc] = "closed"

C9_Witness ==
    /\ pc = "d_wait"
    /\ Cur.op = "Disconnect"
    /\ Cur.stopReq
    /\ Cur.closed
    /\ jobs[schemaFetchJob].loop = "fetching"

DisconnectReturned ==
    \E k \in Calls : hist[k].op = "Disconnect" /\ hist[k].ret = "returned"

\* C10: once a Disconnect has returned, no iteration of a background loop
\* begins.
C10_NoIterationAfterDisconnect ==
    [][DisconnectReturned =>
          \A j \in 1..Len(jobs) :
              ~(jobs[j].loop = "waiting" /\ jobs'[j].loop = "fetching")]_vars

\* C11: a Connect whose create is issued while a node exists at the presence
\* path fails there and returns the error of the create; a call that
\* returned the node-exists error has fetched no schema, created no task and
\* launched no loop.
C11_ExistingNodeFailsConnect ==
    /\ [](\A k \in Calls :
             (hist[k].op = "Connect" /\ hist[k].ret = "ErrNodeExists")
                 => /\ ~hist[k].created
                    /\ ~hist[k].newJob
                    /\ hist[k].fetched = "none"
                    /\ ~hist[k].launched)
    /\ [][(pc = "c_create" /\ node # 0 /\ pc' # pc)
             => /\ pc' = "idle"
                /\ Cur'.ret \in {"ErrNodeExists", "ErrConnectionClosed"}
                /\ node' = node
                /\ jobs' = jobs
                /\ schemaFetchJob' = schemaFetchJob]_vars

C11_Witness ==
    /\ pc = "idle"
    /\ Len(hist) >= 1
    /\ Cur.op = "Connect"
    /\ Cur.ret = "ErrNodeExists"
    /\ node = Foreign
    /\ schemaFetchJob = Nil

\* the create requests carried out for call k
CreatesOf(k) == {i \in 1..Len(creates) : creates[i].call = k}

\* C12: every successful Connect has created exactly one node, at
\* /ares_controller/<cluster>/instances/<name>, ephemeral, whose payload reads
\* back as {Name: name, Host: host, Port: port}; for c1, n1, h1 and 8080 the
\* payload is {"Name":"n1","Host":"h1","Port":8080}.
C12_NodePathAndPayload ==
    \A k \in Calls :
        (hist[k].op = "Connect" /\ hist[k].ret = "ok")
            => /\ Cardinality(CreatesOf(k)) = 1
               /\ \A i \in CreatesOf(k) :
                     /\ creates[i].path =
                            "/ares_controller/" \o cfg.ClusterName
                                \o "/instances/" \o cfg.InstanceName
                     /\ creates[i].flags = "FlagEphemeral"
                     /\ Unmarshal(creates[i].data) =
                            [Name |-> cfg.InstanceName, Host |-> hostname,
                             Port |-> cfg.Port]
                     /\ (cfg = [InstanceName |-> "n1", ClusterName |-> "c1", Port |-> 8080]
                             /\ hostname = "h1")
                            => /\ creates[i].path = "/ares_controller/c1/instances/n1"
                               /\ creates[i].data = "{\"Name\":\"n1\",\"Host\":\"h1\",\"Port\":8080}"

C12_Witness ==
    /\ pc = "idle"
    /\ Len(hist) >= 1
    /\ Cur.op = "Connect"
    /\ Cur.ret = "ok"
    /\ cfg.InstanceName = "a\"b\\<"
    /\ hostname = "h\"2"
    /\ cfg.Port = -1
    /\ creates[Len(creates)].data =
           "{\"Name\":\"a\\\"b\\\\\\u003c\",\"Host\":\"h\\\"2\",\"Port\":-1}"

\* C13: a loop whose iteration failed does not terminate: it exits only
\* when Stop has been invoked, and while Stop has not been invoked a further
\* iteration begins.
C13_LoopSurvivesFetchError ==
    /\ [](\A j \in 1..Len(jobs) : jobs[j].loop = "exited" => jobs[j].stop)
    /\ \A j \in JobIds :
          (j <= Len(jobs) /\ jobs[j].loop = "waiting" /\ jobs[j].last \in FetchErrs)
              ~> (j <= Len(jobs) /\ (jobs[j].loop = "fetching" \/ jobs[j].stop))

C13_Witness ==
    \E j \in 1..Len(jobs) :
        /\ jobs[j].last \in FetchErrs
        /\ jobs[j].loop = "fetching"
        /\ ~jobs[j].stop

\* C14: a Connect that has returned success has launched the loop, and the
\* step that launches a loop is the step in which Connect returns success.
C14_LaunchIsLastStep ==
    /\ [](\A k \in Calls :
             (hist[k].op = "Connect" /\ hist[k].ret = "ok")
                 => /\ hist[k].launched
                    /\ (k = Len(hist) /\ pc = "idle")
                          => jobs[schemaFetchJob].loop # "notstarted")
    /\ [][(\E j \in 1..Len(jobs) :
              jobs[j].loop = "notstarted" /\ jobs'[j].loop # "notstarted")
             => /\ pc = "c_run"
                /\ pc' = "idle"
                /\ Cur.ret = "running"
                /\ Cur'.ret = "ok"]_vars

C14_Witness ==
    /\ pc = "idle"
    /\ Len(hist) >= 1
    /\ Cur.op = "Connect"
    /\ Cur.ret = "ok"
    /\ Cur.launched
    /\ jobs[schemaFetchJob].loop = "fetching"

\* C15: a Connect that opened the session and then failed at node creation
\* leaves the session handle set and the session open, and leaves the task
\* handle as it was before the call.
C15_NoRollback ==
    (/\ Len(hist) >= 1
     /\ Cur.op = "Connect"
     /\ Cur.opened
     /\ Cur.ret \in CreateErrs)
        => /\ zkc # Nil
           /\ conns[zkc] = "open"
           /\ ~Cur.closed
           /\ ~Cur.newJob
           /\ schemaFetchJob = Cur.jobBefore

C15_Witness ==
    /\ pc = "idle"
    /\ Len(hist) >= 1
    /\ Cur.op = "Connect"
    /\ Cur.opened
    /\ Cur.ret = "ErrNodeExists"
    /\ zkc # Nil
    /\ conns[zkc] = "open"

\* C16: a Disconnect on a manager that holds no session (never connected, or
\* Connect failed to open one) does not fault.
C16_DisconnectWithoutSessionIsSafe ==
    (Len(hist) >= 1 /\ Cur.op = "Disconnect" /\ zkc = Nil) => Cur.ret # "panic"

\* a Disconnect has closed the session in an earlier call
ClosedBefore(k) == \E d \in 1..(k - 1) : hist[d].op = "Disconnect" /\ hist[d].closed

\* C17: zk.Connect succeeds at most once for a manager, the handle once set
\* never changes, and a Connect after a Disconnect opens no session: when it
\* gets to the create, the create is refused by the closed connection.
C17_SessionAcquiredOnce ==
    /\ [](/\ Len(conns) <= 1
          /\ Cardinality({k \in Calls : hist[k].opened}) <= 1
          /\ \A k \in Calls :
                (hist[k].op = "Connect" /\ ClosedBefore(k))
                    => /\ ~hist[k].opened
                       /\ ~hist[k].created
                       /\ hist[k].ret \in {"running", "ErrInvalidInstanceName",
                                           "ErrHostname", "ErrClosing"})
    /\ [][zkc # Nil => zkc' = zkc]_vars

C17_Witness ==
    /\ pc = "idle"
    /\ Len(hist) = 3
    /\ hist[1].op = "Connect" /\ hist[1].ret = "ok"
    /\ hist[2].op = "Disconnect" /\ hist[2].ret = "returned"
    /\ hist[3].op = "Connect" /\ hist[3].ret = "ErrClosing"
    /\ Len(conns) = 1

\* the manager is connected: session open, its node in place, its loop running
Connected ==
    /\ zkc # Nil
    /\ conns[zkc] = "open"
    /\ node = zkc
    /\ schemaFetchJob # Nil
    /\ jobs[schemaFetchJob].loop \in {"waiting", "fetching"}

\* C18: no step of a Connect taken while the manager is connected returns
\* success or changes the handles, the session, the node, the task or the
\* set of running loops; the create of such a Connect fails.
C18_SecondConnectChangesNothing ==
    [][(Connected /\ pc \in {"idle", "c_name", "c_create"} /\ pc' # pc
          /\ Cur'.op = "Connect")
          => /\ MgrState' = MgrState
             /\ jobs' = jobs
             /\ RunningLoops' = RunningLoops
             /\ pc' \in {"idle", "c_name", "c_create"}
             /\ Cur'.ret # "ok"
             /\ ~Cur'.opened /\ ~Cur'.created /\ ~Cur'.newJob /\ ~Cur'.launched
             /\ (pc = "c_create"
                    => Cur'.ret \in {"ErrNodeExists", "ErrConnectionClosed"})]_vars

C18_Witness ==
    /\ pc = "idle"
    /\ Len(hist) = 2
    /\ hist[1].op = "Connect" /\ hist[1].ret = "ok"
    /\ hist[2].op = "Connect" /\ hist[2].ret = "ErrNodeExists"
    /\ Connected
    /\ Cardinality(RunningLoops) = 1

====
